---- MODULE Spec2Model ----
(***************************************************************************)
(* State-machine model of run_challenge.py, the benchmark driver: compile  *)
(* the solver with Maven, sweep stale solver processes, create the output  *)
(* directory, then run the solver JAR once per ".txt" entry of the input   *)
(* directory, raising on the first child that exits non-zero.              *)
(*                                                                         *)
(* Strings the code inspects character by character (file names) are       *)
(* sequences of one-character strings.  A directory path is a sequence of  *)
(* segments; a file path is a record [dir, name], which is what            *)
(* os.path.join(dir, name) yields for a name without separators (the names *)
(* os.listdir returns have none).  Only exit statuses drive the model: a   *)
(* subprocess that cannot be started at all, or a file-system call that    *)
(* fails (os.makedirs, os.listdir), is outside it.  The process table, the *)
(* scan position and the kill log are locals of the sweep and are dropped  *)
(* when it returns; killFailed remembers that some kill attempt failed.    *)
(***************************************************************************)
EXTENDS Integers, Sequences, FiniteSets, TLC

\* Bounds of the model.
MaxFiles == 3
MaxProcs == 2

\* ------------------------------------------------------------ configuration

CPLEX_PATH == <<"$HOME/CPLEX_Studio2211/opl/bin/arm64_osx/">>
OR_TOOLS_PATH == <<"$HOME/Documents/or-tools/build/lib/">>
MAX_RUNNING_TIME == "605s"
JAR_NAME == "ChallengeSBPO2025-1.0.jar"
TXT == <<".", "t", "x", "t">>

VARIABLES
    argc,            \* len(sys.argv)
    USE_CPLEX,       \* feature toggles (module globals, never written)
    USE_OR_TOOLS,
    USE_TIMEOUT,
    source_folder,   \* the three abspath'd arguments
    input_folder,
    output_folder,
    pc,              \* position of the script
    dirs,            \* file system: the directories that exist
    created,         \* the directories os.makedirs created
    builds,          \* exit codes of the mvn invocations, in order
    nSweep,          \* calls of kill_existing_java_instances
    procs,           \* kill_existing_java_instances: the process_iter snapshot
    scanIdx,         \*   position of its for loop
    killLog,         \*   the proc.kill() calls made: [pid, ok]
    killFailed,      \* some proc.kill() has raised
    libraries,       \* run_benchmark locals
    prefix,
    listing,         \* os.listdir(input_folder), in enumeration order
    idx,             \* position of the for loop over listing
    spawns,          \* the subprocess.run calls for the solver: [cmd, cwd]
    rcs,             \* the return codes of the solver children that exited
    exc              \* the exception raised out of the script, if any

vars == <<argc, USE_CPLEX, USE_OR_TOOLS, USE_TIMEOUT, source_folder,
          input_folder, output_folder, pc, dirs, created, builds, nSweep,
          procs, scanIdx, killLog, killFailed, libraries, prefix, listing,
          idx, spawns, rcs, exc>>

config == <<argc, USE_CPLEX, USE_OR_TOOLS, USE_TIMEOUT, source_folder,
            input_folder, output_folder>>

\* ------------------------------------------------------------ environment

\* Entries an input directory may hold (with and without the suffix, and
\* hidden-file names made of the suffix alone).
FileNames ==
    { <<"a">> \o TXT, <<"b">> \o TXT, <<"a", ".", "d", "a", "t">>,
      TXT, TXT \o TXT }

Listings ==
    UNION { { s \in [1..k -> FileNames] :
                \A i, j \in 1..k : i # j => s[i] # s[j] } : k \in 0..MaxFiles }

\* Command lines psutil reports: None, an empty list, the stale solver, a
\* process that only names the artifact, an unrelated process.  An argument
\* is a sequence of tokens.
NoCmdline == [none |-> TRUE, args |-> <<>>]
Cmdline(a) == [none |-> FALSE, args |-> a]
Cmdlines ==
    { NoCmdline,
      Cmdline(<<>>),
      Cmdline(<< <<"java">>, <<"-jar">>, <<"/proj/target/", JAR_NAME>>, <<"in.txt">> >>),
      Cmdline(<< <<"less">>, <<JAR_NAME>> >>),
      Cmdline(<< <<"sleep">>, <<"60">> >>) }

ProcTables == UNION { [1..k -> Cmdlines] : k \in 0..MaxProcs }

ExitCodes == {0, 1, 124, 137}
BuildCodes == {0, 1}
ArgCounts == {3, 4, 5}
Platforms == {"Darwin", "Linux"}

NoPath == [dir |-> <<>>, name |-> <<>>]
NoExc == [kind |-> "none", duration |-> "", path |-> NoPath]

\* ------------------------------------------------------------ pure helpers

\* Variant: the suffix test lets every entry through.
endswith_Unfiltered(s, suffix) == TRUE

\* str.endswith
endswith(s, suffix) ==
    /\ Len(s) >= Len(suffix)
    /\ SubSeq(s, Len(s) - Len(suffix) + 1, Len(s)) = suffix

\* os.path.splitext on a name without separators: the extension starts at
\* the last dot, unless only dots precede that dot.
splitext(p) ==
    LET dots == {i \in 1..Len(p) : p[i] = "."}
        dotIndex == CHOOSE i \in dots : \A j \in dots : j <= i
    IN  IF dots # {} /\ (\E i \in 1..(dotIndex - 1) : p[i] # ".")
        THEN <<SubSeq(p, 1, dotIndex - 1), SubSeq(p, dotIndex, Len(p))>>
        ELSE <<p, <<>>>>

\* os.path.join(folder, name)
join(folder, name) == [dir |-> folder, name |-> name]

\* ' '.join(cmdline)
RECURSIVE JoinArgs(_)
JoinArgs(args) ==
    IF args = <<>> THEN <<>>
    ELSE IF Len(args) = 1 THEN args[1]
    ELSE args[1] \o <<" ">> \o JoinArgs(Tail(args))

\* needle in text
Contains(text, needle) == \E i \in 1..Len(text) : text[i] = needle

\* line 28: cmdline and 'ChallengeSBPO2025-1.0.jar' in ' '.join(cmdline)
IsStale(cmdline) ==
    /\ ~cmdline.none
    /\ cmdline.args # <<>>
    /\ Contains(JoinArgs(cmdline.args), JAR_NAME)

\* Variant: no handler around proc.kill(), a failure leaves the function.
KillRaises_Uncaught(ok) == ~ok

\* lines 30-33: does a failed proc.kill() leave the function as an exception?
KillRaises(ok) == FALSE

\* Variant: compile_code returns True whatever mvn's exit code.
CompileOk_Always(returncode) == TRUE

\* lines 46-52: compile_code's return value
CompileOk(returncode) == returncode = 0

\* Variant: os.mkdir in place of os.makedirs, only the last segment is made.
makedirs_LeafOnly(existing, path) == existing \cup {path}

\* os.makedirs(path, exist_ok=True): the path and every missing parent
Prefixes(path) == { SubSeq(path, 1, k) : k \in 1..Len(path) }
makedirs(existing, path) == existing \cup Prefixes(path)

\* Variant: with both libraries enabled, CPLEX's location comes first.
Libraries_CplexFirst(useCplex, useOrTools) ==
    IF useCplex /\ useOrTools THEN CPLEX_PATH \o <<":">> \o OR_TOOLS_PATH
    ELSE IF useCplex THEN CPLEX_PATH
    ELSE IF useOrTools THEN OR_TOOLS_PATH
    ELSE <<>>

\* lines 62-70 (None is the empty sequence: both are falsy at line 91)
Libraries(useCplex, useOrTools) ==
    IF useCplex /\ useOrTools THEN OR_TOOLS_PATH \o <<":">> \o CPLEX_PATH
    ELSE IF useCplex THEN CPLEX_PATH
    ELSE IF useOrTools THEN OR_TOOLS_PATH
    ELSE <<>>

\* line 75
TimeoutCmd(system) == IF system = "Darwin" THEN "gtimeout" ELSE "timeout"

\* line 79
JarPath(source) == join(source \o <<"target">>, JAR_NAME)

\* line 86
InputFile(folder, filename) == join(folder, filename)

\* line 87
OutputFile(folder, filename) == join(folder, splitext(filename)[1] \o TXT)

\* lines 90-102
Command(pre, libs, jar, input_file, output_file) ==
    [prefix |-> pre,
     java |-> "java",
     libflag |-> libs # <<>>,
     libpath |-> libs,
     flags |-> <<"--enable-native-access=ALL-UNNAMED", "-Xmx16g", "-jar">>,
     jar |-> jar,
     input |-> input_file,
     output |-> output_file]

\* Variant: the child runs in the directory that holds the JAR.
ChildCwd_JarDir(source) == source \o <<"target">>

\* line 108
ChildCwd(source) == source

\* Variant: only a timeout stops the loop, other non-zero exits are ignored.
Classify_IgnoresFailure(useTimeout, returncode) ==
    IF useTimeout /\ returncode = 124 THEN "timeout" ELSE "ok"

\* Variant: exit code 124 is a timeout whatever USE_TIMEOUT says.
Classify_NoToggle(useTimeout, returncode) ==
    IF returncode = 124 THEN "timeout"
    ELSE IF returncode # 0 THEN "failed"
    ELSE "ok"

\* lines 111-120
Classify(useTimeout, returncode) ==
    IF useTimeout /\ returncode = 124 THEN "timeout"
    ELSE IF returncode # 0 THEN "failed"
    ELSE "ok"

\* Variant: the sweep is called again before each further entry.
LoopContinue_Resweep == "kill"

\* line 82: where the loop goes after a child that exited 0
LoopContinue == "loop"

\* ------------------------------------------------------------ behaviour

Init ==
    /\ argc \in ArgCounts
    /\ USE_CPLEX \in BOOLEAN
    /\ USE_OR_TOOLS \in BOOLEAN
    /\ USE_TIMEOUT \in BOOLEAN
    /\ source_folder = <<"proj">>
    /\ input_folder \in {<<"in">>, <<"data", "in">>}
    /\ output_folder = <<"res", "out">>
    /\ pc = "main"
    /\ dirs \in {{}, {<<"res">>}, {<<"res">>, <<"res", "out">>}}
    /\ created = {}
    /\ builds = <<>>
    /\ nSweep = 0
    /\ procs = <<>>
    /\ scanIdx = 0
    /\ killLog = <<>>
    /\ killFailed = FALSE
    /\ libraries = <<>>
    /\ prefix = <<>>
    /\ listing = <<>>
    /\ idx = 0
    /\ spawns = <<>>
    /\ rcs = <<>>
    /\ exc = NoExc

\* lines 123-130
Main ==
    /\ pc = "main"
    /\ pc' = IF argc # 4 THEN "usage" ELSE "compile"
    /\ UNCHANGED <<config, dirs, created, builds, nSweep, procs, scanIdx,
                   killLog, killFailed, libraries, prefix, listing, idx,
                   spawns, rcs, exc>>

\* lines 36-52 and 133: mvn clean package, and the guard on its result
compile_code(returncode) ==
    /\ pc = "compile"
    /\ builds' = Append(builds, returncode)
    /\ pc' = IF CompileOk(returncode) THEN "kill" ELSE "exit"
    /\ UNCHANGED <<config, dirs, created, nSweep, procs, scanIdx, killLog,
                   killFailed, libraries, prefix, listing, idx, spawns, rcs,
                   exc>>

\* lines 57 and 26: run_benchmark calls the sweep, which snapshots the table
process_iter(table) ==
    /\ pc = "kill"
    /\ nSweep' = nSweep + 1
    /\ procs' = table
    /\ scanIdx' = 1
    /\ killLog' = <<>>
    /\ pc' = "scan"
    /\ UNCHANGED <<config, dirs, created, builds, killFailed, libraries,
                   prefix, listing, idx, spawns, rcs, exc>>

\* lines 26-33: one iteration of the sweep
ScanStep ==
    /\ pc = "scan"
    /\ scanIdx <= Len(procs)
    /\ scanIdx' = scanIdx + 1
    /\ IF IsStale(procs[scanIdx])
       THEN \E ok \in BOOLEAN :
              /\ killLog' = Append(killLog, [pid |-> scanIdx, ok |-> ok])
              /\ killFailed' = (killFailed \/ ~ok)
              /\ pc' = IF KillRaises(ok) THEN "raised" ELSE "scan"
              /\ exc' = IF KillRaises(ok)
                        THEN [NoExc EXCEPT !.kind = "Exception"] ELSE exc
       ELSE UNCHANGED <<killLog, killFailed, pc, exc>>
    /\ UNCHANGED <<config, dirs, created, builds, nSweep, procs, libraries,
                   prefix, listing, idx, spawns, rcs>>

\* the sweep returns; its locals are gone
ScanReturn ==
    /\ pc = "scan"
    /\ scanIdx > Len(procs)
    /\ procs' = <<>>
    /\ scanIdx' = 0
    /\ killLog' = <<>>
    /\ pc' = "makedirs"
    /\ UNCHANGED <<config, dirs, created, builds, nSweep, killFailed,
                   libraries, prefix, listing, idx, spawns, rcs, exc>>

\* lines 59-80
Prepare ==
    /\ pc = "makedirs"
    /\ dirs' = makedirs(dirs, output_folder)
    /\ created' = dirs' \ dirs
    /\ libraries' = Libraries(USE_CPLEX, USE_OR_TOOLS)
    /\ IF USE_TIMEOUT
       THEN \E system \in Platforms :
              prefix' = <<TimeoutCmd(system), MAX_RUNNING_TIME>>
       ELSE prefix' = <<>>
    /\ pc' = "listdir"
    /\ UNCHANGED <<config, builds, nSweep, procs, scanIdx, killLog,
                   killFailed, listing, idx, spawns, rcs, exc>>

\* line 82: os.listdir
listdir(entries) ==
    /\ pc = "listdir"
    /\ listing' = entries
    /\ idx' = 1
    /\ pc' = "loop"
    /\ UNCHANGED <<config, dirs, created, builds, nSweep, procs, scanIdx,
                   killLog, killFailed, libraries, prefix, spawns, rcs, exc>>

\* lines 82-109: the next entry is skipped, or its child is spawned
LoopStep ==
    /\ pc = "loop"
    /\ idx <= Len(listing)
    /\ LET filename == listing[idx]
           input_file == InputFile(input_folder, filename)
           output_file == OutputFile(output_folder, filename)
           cmd == Command(prefix, libraries, JarPath(source_folder),
                          input_file, output_file)
       IN  IF ~endswith(filename, TXT)
           THEN /\ idx' = idx + 1
                /\ UNCHANGED <<spawns, pc>>
           ELSE /\ spawns' = Append(spawns,
                                    [cmd |-> cmd, cwd |-> ChildCwd(source_folder)])
                /\ pc' = "child"
                /\ UNCHANGED idx
    /\ UNCHANGED <<config, dirs, created, builds, nSweep, procs, scanIdx,
                   killLog, killFailed, libraries, prefix, listing, rcs, exc>>

\* lines 104-120: the child exits and its status is classified
ChildExit(returncode) ==
    /\ pc = "child"
    /\ rcs' = Append(rcs, returncode)
    /\ LET input_file == spawns[Len(spawns)].cmd.input
           outcome == Classify(USE_TIMEOUT, returncode)
       IN  IF outcome = "timeout"
           THEN /\ exc' = [kind |-> "TimeoutError",
                           duration |-> MAX_RUNNING_TIME, path |-> input_file]
                /\ pc' = "raised"
                /\ UNCHANGED idx
           ELSE IF outcome = "failed"
           THEN /\ exc' = [kind |-> "RuntimeError", duration |-> "",
                           path |-> input_file]
                /\ pc' = "raised"
                /\ UNCHANGED idx
           ELSE /\ idx' = idx + 1
                /\ pc' = LoopContinue
                /\ UNCHANGED exc
    /\ UNCHANGED <<config, dirs, created, builds, nSweep, procs, scanIdx,
                   killLog, killFailed, libraries, prefix, listing, spawns>>

\* line 82: the listing is exhausted
LoopEnd ==
    /\ pc = "loop"
    /\ idx > Len(listing)
    /\ pc' = "done"
    /\ UNCHANGED <<config, dirs, created, builds, nSweep, procs, scanIdx,
                   killLog, killFailed, libraries, prefix, listing, idx,
                   spawns, rcs, exc>>

Next ==
    \/ Main
    \/ \E returncode \in BuildCodes : compile_code(returncode)
    \/ \E table \in ProcTables : process_iter(table)
    \/ ScanStep
    \/ ScanReturn
    \/ Prepare
    \/ \E entries \in Listings : listdir(entries)
    \/ LoopStep
    \/ \E returncode \in ExitCodes : ChildExit(returncode)
    \/ LoopEnd

Spec == Init /\ [][Next]_vars

\* ------------------------------------------------------------ properties

\* What the claims mean by their words, stated without the helpers above.
HasTxtSuffix(name) ==
    /\ Len(name) >= 4
    /\ name[Len(name) - 3] = "."
    /\ name[Len(name) - 2] = "t"
    /\ name[Len(name) - 1] = "x"
    /\ name[Len(name)] = "t"

MatchingEntries == SelectSeq(listing, HasTxtSuffix)

ReferencesArtifact(cmdline) ==
    /\ ~cmdline.none
    /\ \E a \in 1..Len(cmdline.args) :
         \E t \in 1..Len(cmdline.args[a]) : cmdline.args[a][t] = JAR_NAME

\* C1: fail-fast batch. When the script has raised out of the loop, the
\* children spawned are exactly the first k matching entries, once each, in
\* enumeration order; the first k-1 exited 0 and the k-th did not; the raised
\* failure names the k-th input path; and nothing can happen afterwards, so
\* no child is spawned for the entries after the k-th.
C1_FailFast ==
    pc = "raised" =>
        LET k == Len(spawns)
        IN  /\ k >= 1
            /\ k <= Len(MatchingEntries)
            /\ \A j \in 1..k :
                 spawns[j].cmd.input = [dir |-> input_folder,
                                        name |-> MatchingEntries[j]]
            /\ Len(rcs) = k
            /\ \A j \in 1..(k - 1) : rcs[j] = 0
            /\ rcs[k] # 0
            /\ exc.path = spawns[k].cmd.input
            /\ ~ENABLED Next

C1_Witness ==
    /\ pc = "raised"
    /\ Len(spawns) = 2
    /\ Len(MatchingEntries) = 3

\* C2: build-failure short-circuit. Once mvn has exited non-zero the script
\* is at its end: no solver child was spawned, the sweep was never called,
\* no directory was created, and no further step is possible.
C2_BuildFailureShortCircuit ==
    (builds # <<>> /\ builds[1] # 0) =>
        /\ pc = "exit"
        /\ spawns = <<>>
        /\ nSweep = 0
        /\ created = {}
        /\ exc = NoExc
        /\ ~ENABLED Next

C2_Witness ==
    /\ builds = <<1>>
    /\ pc = "exit"
    /\ output_folder \notin dirs

\* C3: exit-status classification. For the last child that exited, with
\* return code rc: the outcome is a TimeoutError carrying MAX_RUNNING_TIME
\* and the input path iff USE_TIMEOUT and rc = 124; it is a RuntimeError for
\* that input path iff rc # 0 and it is no timeout failure; and the script
\* goes on without an exception iff rc = 0.
C3_ExitStatusClassification ==
    rcs # <<>> =>
        LET k == Len(rcs)
            rc == rcs[k]
            input_file == spawns[k].cmd.input
            timeoutFailure ==
                /\ pc = "raised"
                /\ exc = [kind |-> "TimeoutError",
                          duration |-> MAX_RUNNING_TIME, path |-> input_file]
            genericFailure ==
                /\ pc = "raised"
                /\ exc.kind = "RuntimeError"
                /\ exc.path = input_file
            success ==
                /\ pc \in {"loop", "child", "done"}
                /\ exc = NoExc
        IN  /\ timeoutFailure <=> (USE_TIMEOUT /\ rc = 124)
            /\ genericFailure <=> (rc # 0 /\ ~timeoutFailure)
            /\ success <=> (rc = 0)

C3_Witness ==
    /\ ~USE_TIMEOUT
    /\ rcs # <<>>
    /\ rcs[Len(rcs)] = 124
    /\ exc.kind = "RuntimeError"

\* C4 as stated: the library-path flag of every spawned command is absent
\* with neither library enabled, CPLEX's location with only CPLEX, OR-Tools'
\* location with only OR-Tools, and CPLEX's location, ':', OR-Tools' location
\* with both.
C4_FirstThenSecond ==
    \A j \in 1..Len(spawns) :
        LET cmd == spawns[j].cmd
        IN  /\ (~USE_CPLEX /\ ~USE_OR_TOOLS) => ~cmd.libflag
            /\ (USE_CPLEX /\ ~USE_OR_TOOLS) =>
                 (cmd.libflag /\ cmd.libpath = CPLEX_PATH)
            /\ (~USE_CPLEX /\ USE_OR_TOOLS) =>
                 (cmd.libflag /\ cmd.libpath = OR_TOOLS_PATH)
            /\ (USE_CPLEX /\ USE_OR_TOOLS) =>
                 (cmd.libflag
                  /\ cmd.libpath = CPLEX_PATH \o <<":">> \o OR_TOOLS_PATH)

\* C4 as amended: as above, except that with both libraries enabled the flag
\* is OR-Tools' location, ':', CPLEX's location (second library, then first).
C4_SecondThenFirst ==
    \A j \in 1..Len(spawns) :
        LET cmd == spawns[j].cmd
        IN  /\ (~USE_CPLEX /\ ~USE_OR_TOOLS) => ~cmd.libflag
            /\ (USE_CPLEX /\ ~USE_OR_TOOLS) =>
                 (cmd.libflag /\ cmd.libpath = CPLEX_PATH)
            /\ (~USE_CPLEX /\ USE_OR_TOOLS) =>
                 (cmd.libflag /\ cmd.libpath = OR_TOOLS_PATH)
            /\ (USE_CPLEX /\ USE_OR_TOOLS) =>
                 (cmd.libflag
                  /\ cmd.libpath = OR_TOOLS_PATH \o <<":">> \o CPLEX_PATH)

C4_Witness ==
    /\ USE_CPLEX
    /\ USE_OR_TOOLS
    /\ spawns # <<>>
    /\ spawns[1].cmd.libflag

\* C5: the output directory precedes every spawn. Whenever a solver child
\* has been spawned, and from the moment the input directory is listed on,
\* the output directory and all its parent segments exist, also when no
\* entry of the input directory matches.
C5_OutputDirBeforeSpawn ==
    (spawns # <<>> \/ pc \in {"listdir", "loop", "child", "done"}) =>
        \A k \in 1..Len(output_folder) : SubSeq(output_folder, 1, k) \in dirs

C5_Witness ==
    /\ pc = "done"
    /\ MatchingEntries = <<>>
    /\ spawns = <<>>
    /\ created = {<<"res">>, <<"res", "out">>}

\* C6: suffix filter. Every spawned child's input is an entry of the listing
\* whose name ends with ".txt", and when the loop has run to its end (every
\* child exited 0) the spawned inputs are exactly the matching entries, once
\* each.
C6_SuffixFilter ==
    /\ \A j \in 1..Len(spawns) :
         /\ HasTxtSuffix(spawns[j].cmd.input.name)
         /\ \E i \in 1..Len(listing) : listing[i] = spawns[j].cmd.input.name
    /\ pc = "done" =>
         /\ Len(spawns) = Len(MatchingEntries)
         /\ \A j \in 1..Len(spawns) :
              spawns[j].cmd.input.name = MatchingEntries[j]
         /\ \A j \in 1..Len(rcs) : rcs[j] = 0

C6_Witness ==
    /\ pc = "done"
    /\ Len(listing) = 3
    /\ Len(spawns) = 2

\* C7: output-path derivation. Every output path handed to a child lies in
\* the output directory, and two different children of one run never get
\* the same output path.
C7_OutputPathDerivation ==
    \A i, j \in 1..Len(spawns) :
        /\ spawns[i].cmd.output.dir = output_folder
        /\ i # j => spawns[i].cmd.output # spawns[j].cmd.output

\* C8: best-effort sweep. During the scan the kill attempts made are exactly
\* the processes seen so far whose command line references the artifact,
\* once each and in scan order, whether or not an earlier attempt failed; no
\* exception is pending and the scan can always go on; and an exception that
\* ends the script never comes from the sweep, only from a solver child.
C8_BestEffortSweep ==
    /\ pc = "scan" =>
         LET seen == {i \in 1..(scanIdx - 1) : ReferencesArtifact(procs[i])}
         IN  /\ {killLog[n].pid : n \in 1..Len(killLog)} = seen
             /\ Len(killLog) = Cardinality(seen)
             /\ \A m, n \in 1..Len(killLog) :
                  m < n => killLog[m].pid < killLog[n].pid
             /\ exc = NoExc
             /\ ENABLED (ScanStep \/ ScanReturn)
    /\ pc = "raised" =>
         /\ spawns # <<>>
         /\ exc.kind \in {"TimeoutError", "RuntimeError"}

C8_Witness ==
    /\ pc = "scan"
    /\ scanIdx > Len(procs)
    /\ Len(killLog) = 2
    /\ ~killLog[1].ok

\* C9: phase ordering with correct arguments. mvn is invoked at most once
\* and before anything else; the sweep is called at most once, only after a
\* build that exited 0, and is over before the first child is spawned; at
\* most one solver child is alive, and every child but the last spawned has
\* exited with status 0.
C9_PhaseOrdering ==
    argc = 4 =>
        /\ Len(builds) <= 1
        /\ pc \notin {"main", "compile"} => Len(builds) = 1
        /\ nSweep <= 1
        /\ nSweep = 1 => builds = <<0>>
        /\ pc \in {"kill", "scan"} => (spawns = <<>> /\ created = {})
        /\ (spawns # <<>> \/ created # {}) => nSweep = 1
        /\ Len(spawns) = Len(rcs) + (IF pc = "child" THEN 1 ELSE 0)
        /\ \A j \in 1..(Len(spawns) - 1) : rcs[j] = 0

C9_Witness ==
    /\ argc = 4
    /\ pc = "child"
    /\ Len(spawns) = 2
    /\ nSweep = 1

\* C10 as stated: every solver child runs in the directory that holds the
\* JAR passed after -jar.
C10_CwdIsJarDirectory ==
    \A j \in 1..Len(spawns) : spawns[j].cwd = spawns[j].cmd.jar.dir

\* C10 as amended: every solver child runs in the source folder, and the JAR
\* passed after -jar is target/ChallengeSBPO2025-1.0.jar below it.
C10_CwdIsSourceFolder ==
    \A j \in 1..Len(spawns) :
        /\ spawns[j].cwd = source_folder
        /\ spawns[j].cmd.jar = [dir |-> spawns[j].cwd \o <<"target">>,
                                name |-> JAR_NAME]

C10_Witness ==
    /\ spawns # <<>>
    /\ spawns[1].cwd = <<"proj">>
    /\ spawns[1].cmd.jar.dir = <<"proj", "target">>

====
